---- MODULE Spec2Model ----
(***************************************************************************)
(* A model of shootout.py: the benchmark script that builds or loads one   *)
(* index per retrieval backend, times the query workload (profile) and     *)
(* scores each backend against the exact gensim index (get_accuracy).      *)
(*                                                                         *)
(* Three specifications share the module:                                  *)
(*   Spec          successive invocations of the script over one input     *)
(*                 directory (the __main__ block), with the files the      *)
(*                 script leaves on disk between invocations;              *)
(*   SpecAccuracy  get_accuracy applied to small corpora, values of TOP_N  *)
(*                 and predicted id lists;                                 *)
(*   SpecProfile   the profile decorator's timing loop and its report.     *)
(***************************************************************************)
EXTENDS Integers, Sequences, FiniteSets

VARIABLES
    in_program,     \* backend -> whether its keyword is in `program` (line 153)
    TOP_N,          \* the global TOP_N (line 27, overridden from sys.argv[2])
    ACC,            \* the global ACC (line 28, overridden from sys.argv[3])
    pc,             \* where the __main__ block stands: [at, phase]
    disk,           \* the files under sim_prefix: artifact name -> content or NoFile
    clipped_saved,  \* sim_prefix + "_clipped.npy" exists
    index,          \* the index objects of the process: backend -> object or NoIndex
    steps,          \* what has been done for each backend in this invocation
    ground_truths,  \* how often this invocation computed the ground truth
    asked_k,        \* the result counts queries of this invocation asked for
    failed,         \* the backend whose step raised, or "none"
    corpus,         \* SpecAccuracy: the vectors held by the gensim index
    predicted_ids,  \* SpecAccuracy: one id list per query
    num_best,       \* SpecAccuracy: gensim_index.num_best
    accuracy,       \* SpecAccuracy: the outcome of get_accuracy, or NotCalled
    num_docs,       \* SpecProfile: documents in the clipped corpus
    times,          \* SpecProfile: the list `times` of with_profiling
    reported        \* SpecProfile: the logged ms/query as a fraction, or NotReported

vars == <<in_program, TOP_N, ACC, pc, disk, clipped_saved, index, steps, ground_truths,
          asked_k, failed, corpus, predicted_ids, num_best,
          accuracy, num_docs, times, reported>>

mainVars == <<in_program, TOP_N, ACC, pc, disk, clipped_saved, index, steps,
              ground_truths, asked_k, failed>>
accVars == <<corpus, predicted_ids, num_best, accuracy>>
profVars == <<num_docs, times, reported>>

(***************************************************************************)
(* Bounds of the model.                                                    *)
(***************************************************************************)
MaxTopN == 2        \* sys.argv[2] ranges over 1..MaxTopN
MaxK == 3           \* SpecAccuracy: TOP_N ranges over 1..MaxK
MaxDocs == 2        \* SpecAccuracy: documents in the corpus
MaxNumDocs == 101   \* SpecProfile: documents in the corpus
MaxDuration == 3    \* SpecProfile: duration of one pass, in time units

(***************************************************************************)
(* Program constants (lines 26-36).                                        *)
(***************************************************************************)
MAX_DOCS == 10000000
NUM_QUERIES == 100
REPEATS == 3

\* ACC_SETTINGS, lines 32-36; flann's target precision is in percent.
ACC_SETTINGS ==
    [flann |-> [low |-> <<70>>, high |-> <<95>>],
     annoy |-> [low |-> <<12>>, high |-> <<100>>],
     lsh   |-> [low |-> <<10, 10>>, high |-> <<10, 10>>]]

Backends == {"gensim", "flann", "annoy", "lsh", "sklearn"}
\* the order of the `if ... in program` branches of __main__
Order == <<"gensim", "flann", "annoy", "lsh", "sklearn">>
Accs == {"low", "high"}
TopNs == 1..MaxTopN

Min(a, b) == IF a <= b THEN a ELSE b

(***************************************************************************)
(* Program names.  `'flann' in program` is Python's substring test on      *)
(* os.path.basename(sys.argv[0]); names are tuples of characters.          *)
(***************************************************************************)
Keyword ==
    [gensim  |-> <<"g", "e", "n", "s", "i", "m">>,
     flann   |-> <<"f", "l", "a", "n", "n">>,
     annoy   |-> <<"a", "n", "n", "o", "y">>,
     lsh     |-> <<"l", "s", "h">>,
     sklearn |-> <<"s", "k", "l", "e", "a", "r", "n">>]

\* Python's `t in s` for strings
Contains(s, t) ==
    \E i \in 0..(Len(s) - Len(t)) : SubSeq(s, i + 1, i + Len(t)) = t

\* os.path.basename
basename(path) ==
    LET slashes == {i \in 1..Len(path) : path[i] = "/"}
        last == IF slashes = {} THEN 0
                ELSE CHOOSE i \in slashes : \A j \in slashes : j <= i
    IN SubSeq(path, last + 1, Len(path))

\* "shootout" followed by "_<keyword>" for each backend of S, and ".py"
RECURSIVE Suffix(_, _)
Suffix(S, i) ==
    IF i > Len(Order) THEN <<".", "p", "y">>
    ELSE (IF Order[i] \in S THEN <<"_">> \o Keyword[Order[i]] ELSE <<>>)
         \o Suffix(S, i + 1)

ScriptName(S) == <<"s", "h", "o", "o", "t", "o", "u", "t">> \o Suffix(S, 1)

\* the values of sys.argv[0] the model starts the script with: one name per set
\* of keywords, called in the current directory, and a script without keyword
\* that lies in a directory called flann
ProgramPaths ==
    {<<".", "/">> \o ScriptName(S) : S \in SUBSET Backends}
    \cup {Keyword["flann"] \o <<"/">> \o ScriptName({})}

\* line 153 and the tests of lines 202, 207, 227, 246, 263 on its result:
\* for each backend, whether `'<keyword>' in program` holds when the script is
\* started as `path`
KeywordsIn(path) == [b \in Backends |-> Contains(basename(path), Keyword[b])]

Selected(b) == in_program[b]

EnabledBackends == {b \in Backends : Selected(b)}

(***************************************************************************)
(* Files and index objects.                                                *)
(***************************************************************************)
NoFile == [k |-> 0, tuning |-> <<>>, made |-> "nothing"]
NoIndex == NoFile

\* the file an index is looked for in and loaded from (lines 186-188, 211-214,
\* 230-233, 248-250, 265-267); sim_prefix is common to all and left out
ArtifactName(b, acc) ==
    IF b \in {"flann", "annoy"} THEN <<b, acc>> ELSE <<b, "">>

\* SaveName with the accuracy tier left out of every file name
SaveNameNoTier(b, acc) == <<b, "">>

\* the file a freshly built index is saved to (lines 194, 220, 240, 257, 272)
SaveName(b, acc) ==
    IF b \in {"flann", "annoy"} THEN <<b, acc>> ELSE <<b, "">>

\* every file name the script looks for or writes
ArtifactNames ==
    {ArtifactName(b, a) : b \in Backends, a \in Accs}
    \cup {SaveName(b, a) : b \in Backends, a \in Accs}
    \cup {<<b, "">> : b \in Backends}

\* os.path.exists
os_path_exists(name) == disk[name] /= NoFile

\* the index each backend constructs (lines 193, 218, 229-239, 253-256, 270):
\* what the object keeps of the configuration it was built under and its
\* queries read.  gensim keeps num_best; sklearn is passed n_neighbors with
\* every query (lines 78, 82, 104), so the default of line 270 is never read
NewIndex(b, top_n, acc) ==
    [k |-> IF b = "gensim" THEN top_n ELSE 0,
     tuning |-> IF b \in DOMAIN ACC_SETTINGS THEN ACC_SETTINGS[b][acc] ELSE <<>>,
     made |-> b]

(***************************************************************************)
(* The steps of the __main__ block.                                        *)
(***************************************************************************)
\* the profiled functions called for a backend, in the order of the calls
\* (lines 204-205, 224-225, 244, 261, 276-277)
TimingPlan(b) ==
    CASE b = "gensim"  -> <<"at_once", "1by1">>
      [] b = "flann"   -> <<"1by1", "at_once">>
      [] b = "annoy"   -> <<"1by1">>
      [] b = "lsh"     -> <<"1by1">>
      [] b = "sklearn" -> <<"1by1", "at_once">>

\* Phases with the timing calls ahead of log_precision
PhasesTimingFirst(b) ==
    <<"index">>
    \o [i \in 1..Len(TimingPlan(b)) |-> IF i = 1 THEN "time1" ELSE "time2"]
    \o (IF b = "gensim" THEN <<>> ELSE <<"eval">>)

\* the phases of a backend's branch in the order the script runs them; the
\* gensim index is made before the branches, and its log_precision call is
\* commented out (line 203)
Phases(b) ==
    (IF b = "gensim" THEN <<"index">> ELSE <<"index", "eval">>)
    \o [i \in 1..Len(TimingPlan(b)) |-> IF i = 1 THEN "time1" ELSE "time2"]

Position(b) == CHOOSE i \in 1..Len(Order) : Order[i] = b

\* NextBranch without the tests: every branch is entered
NextBranchUntested(i) ==
    IF i >= Len(Order) THEN [at |-> "end", phase |-> "done"]
    ELSE [at |-> Order[i + 1], phase |-> "index"]

\* the tests `if '<keyword>' in program` that follow the branch of Order[i]:
\* the script enters the next branch whose keyword is in the program name,
\* and reaches line 279 when there is none
RECURSIVE NextBranch(_)
NextBranch(i) ==
    IF i >= Len(Order) THEN [at |-> "end", phase |-> "done"]
    ELSE IF Selected(Order[i + 1]) THEN [at |-> Order[i + 1], phase |-> "index"]
    ELSE NextBranch(i + 1)

\* where the script stands after phase ph of backend b; the gensim index
\* (lines 186-195) is made before the test of line 202
AfterPhase(b, ph) ==
    LET i == CHOOSE j \in 1..Len(Phases(b)) : Phases(b)[j] = ph
    IN IF i = Len(Phases(b)) \/ (b = "gensim" /\ ph = "index" /\ ~Selected(b))
       THEN NextBranch(Position(b))
       ELSE [at |-> b, phase |-> Phases(b)[i + 1]]

Ended == pc.at = "end"

\* lines 147-184: a new process reads its arguments and the corpus, caches the
\* dense corpus and selects the queries; it starts with no index in memory
StartRun(path, top_n, acc) ==
    /\ pc.at = "start"
    /\ in_program' = KeywordsIn(path)
    /\ TOP_N' = top_n
    /\ ACC' = acc
    /\ clipped_saved' = TRUE
    /\ index' = [b \in Backends |-> NoIndex]
    /\ steps' = [b \in Backends |-> <<>>]
    /\ ground_truths' = 0
    /\ asked_k' = {}
    /\ failed' = "none"
    /\ pc' = [at |-> "gensim", phase |-> "index"]
    /\ UNCHANGED disk

\* lines 186-195, 208-221, 228-241, 247-258, 264-273: load the index if its
\* file exists, else build it and save it
BuildOrLoad(b) ==
    /\ pc = [at |-> b, phase |-> "index"]
    /\ IF os_path_exists(ArtifactName(b, ACC))
       THEN /\ index' = [index EXCEPT ![b] = disk[ArtifactName(b, ACC)]]
            /\ steps' = [steps EXCEPT ![b] = Append(@, "load")]
            /\ UNCHANGED disk
       ELSE /\ index' = [index EXCEPT ![b] = NewIndex(b, TOP_N, ACC)]
            /\ disk' = [disk EXCEPT ![SaveName(b, ACC)] = NewIndex(b, TOP_N, ACC)]
            /\ steps' = [steps EXCEPT ![b] = Append(@, "build")]
    /\ pc' = AfterPhase(b, "index")
    /\ UNCHANGED <<in_program, TOP_N, ACC, clipped_saved, ground_truths, asked_k, failed>>

\* get_accuracy computes the ground truth itself unless it is handed one
\* (line 125)
GroundTruthComputations(expecteds_given) == IF expecteds_given THEN 0 ELSE 1

\* lines 223, 243, 260, 275: log_precision(method, index, queries, index_gensim),
\* called without expecteds; get_accuracy sets index_gensim.num_best (line 123)
\* and queries index_gensim for every query (line 125); the predictions ask
\* the backend for TOP_N results (lines 95-112)
LogPrecision(b) ==
    /\ pc = [at |-> b, phase |-> "eval"]
    /\ index' = [index EXCEPT !["gensim"].k = TOP_N]
    /\ ground_truths' = ground_truths + GroundTruthComputations(FALSE)
    /\ asked_k' = asked_k \cup {TOP_N}
    /\ steps' = [steps EXCEPT ![b] = Append(@, "eval")]
    /\ pc' = AfterPhase(b, "eval")
    /\ UNCHANGED <<in_program, TOP_N, ACC, disk, clipped_saved, failed>>

\* the number of results a profiled query asks for: index[query] of gensim
\* returns index.num_best results (lines 60, 64), the others are passed TOP_N
\* (lines 69-92)
QueriedK(b) == IF b = "gensim" THEN index["gensim"].k ELSE TOP_N

\* lines 204-205, 224-225, 244, 261, 276-277: one profiled function, all its
\* REPEATS passes
Profile(b) ==
    /\ pc.at = b
    /\ pc.phase \in {"time1", "time2"}
    /\ asked_k' = asked_k \cup {QueriedK(b)}
    /\ steps' = [steps EXCEPT ![b] =
                    Append(@, TimingPlan(b)[IF pc.phase = "time1" THEN 1 ELSE 2])]
    /\ pc' = AfterPhase(b, pc.phase)
    /\ UNCHANGED <<in_program, TOP_N, ACC, disk, clipped_saved, index, ground_truths,
                   failed>>

\* an import, a library call or a file operation of the step at pc raises:
\* nothing in __main__ catches it, the process ends with a traceback
Raise(b) ==
    /\ pc.at = b
    /\ failed' = b
    /\ pc' = [at |-> "end", phase |-> "aborted"]
    /\ UNCHANGED <<in_program, TOP_N, ACC, disk, clipped_saved, index, steps,
                   ground_truths, asked_k>>

\* the process is gone (after line 279, or after the traceback): its globals
\* and index objects go with it, the files stay
Exit ==
    /\ pc.at = "end"
    /\ pc' = [at |-> "start", phase |-> "argv"]
    /\ in_program' = [b \in Backends |-> FALSE]
    /\ TOP_N' = 1
    /\ ACC' = "high"
    /\ index' = [b \in Backends |-> NoIndex]
    /\ steps' = [b \in Backends |-> <<>>]
    /\ ground_truths' = 0
    /\ asked_k' = {}
    /\ failed' = "none"
    /\ UNCHANGED <<disk, clipped_saved>>

(***************************************************************************)
(* get_accuracy (lines 119-131) over a small corpus.  Documents are        *)
(* numbered from 0 by their position in the corpus; the gensim index       *)
(* holds the corpus vectors and the similarity of a document to a query    *)
(* is their dot product.  Fractions are kept as numerator and denominator. *)
(***************************************************************************)
Vectors == {<<1, 2>>, <<2, 0>>}

Corpora == UNION {[1..n -> Vectors] : n \in 1..MaxDocs}

RECURSIVE Sum(_)
Sum(s) == IF s = <<>> THEN 0 ELSE Head(s) + Sum(Tail(s))

\* numpy.dot
Dot(u, v) == Sum([i \in 1..Len(u) |-> u[i] * v[i]])

\* gensim_index.vector_by_id
vector_by_id(c, id) == c[id + 1]

\* line 184: queries = clipped[:NUM_QUERIES]
QueriesOf(c) == SubSeq(c, 1, Min(NUM_QUERIES, Len(c)))

\* the n most similar of the documents ids, by decreasing similarity
\* (documents of equal similarity by increasing id), as <<id, similarity>>
RECURSIVE MostSimilar(_, _, _)
MostSimilar(sims, ids, n) ==
    IF n = 0 \/ ids = {} THEN <<>>
    ELSE LET best == CHOOSE i \in ids : \A j \in ids :
                        \/ sims[i + 1] > sims[j + 1]
                        \/ sims[i + 1] = sims[j + 1] /\ i <= j
         IN <<<<best, sims[best + 1]>>>> \o MostSimilar(sims, ids \ {best}, n - 1)

\* the exact index of every corpus: for a query, all documents by
\* decreasing similarity
MatrixSimilarity ==
    [c \in Corpora |-> [query \in Vectors |->
        MostSimilar([i \in 1..Len(c) |-> Dot(c[i], query)], 0..(Len(c) - 1), Len(c))]]

\* gensim_index[query] with num_best = n: the n most similar documents of the
\* corpus, fewer when the corpus has fewer
gensim_query(c, query, n) == SubSeq(MatrixSimilarity[c][query], 1, Min(n, Len(c)))

\* the lists of document ids a backend may answer one query with: up to k
\* different documents of a corpus of n
IdLists(n, k) ==
    {l \in UNION {[1..m -> 0..(n - 1)] : m \in 0..Min(k, n)} :
        \A i, j \in DOMAIN l : i /= j => l[i] /= l[j]}

Range(l) == {l[i] : i \in DOMAIN l}

\* Overlap counting only the ids predicted at the rank the ground truth has them
OverlapByRank(expected_ids, predicted) ==
    Cardinality({i \in DOMAIN predicted \cap DOMAIN expected_ids :
                    predicted[i] = expected_ids[i]})

\* line 126: len(set(expected_ids).intersection(predicted))
Overlap(expected_ids, predicted) ==
    Cardinality(Range(expected_ids) \cap Range(predicted))

\* line 129: predicted_sims.extend([0.0] * (TOP_N - len(predicted_sims)))
PadZeros(predicted_sims, top_n) ==
    predicted_sims \o [i \in 1..(top_n - Len(predicted_sims)) |-> 0]

\* line 130: whether numpy can add arrays of these lengths
Broadcastable(p, e) == Len(p) = Len(e) \/ Len(p) = 1 \/ Len(e) = 1

\* line 130: -numpy.array(predicted_sims) + expected_sims, an array of length
\* one being stretched to the length of the other
Differences(p, e) ==
    IF Len(p) = Len(e) THEN [i \in 1..Len(p) |-> e[i] - p[i]]
    ELSE IF Len(e) = 1 THEN [i \in 1..Len(p) |-> e[1] - p[i]]
    ELSE [i \in 1..Len(e) |-> e[i] - p[1]]

NoExpecteds == [given |-> FALSE, value |-> <<>>]

\* lines 124-130: the loop over zip(predicted_ids, queries), from
\* query_no (counted from 1) on, with the sums so far
RECURSIVE AccuracyLoop(_, _, _, _, _, _, _, _)
AccuracyLoop(predicted, queries, c, nb, top_n, expecteds, query_no, acc) ==
    IF query_no > Min(Len(predicted), Len(queries)) THEN acc
    ELSE
        LET query == queries[query_no]
            expected == IF expecteds.given THEN expecteds.value[query_no]
                        ELSE gensim_query(c, query, nb)
            expected_ids == [i \in DOMAIN expected |-> expected[i][1]]
            expected_sims == [i \in DOMAIN expected |-> expected[i][2]]
            pred == predicted[query_no]
            predicted_sims ==
                PadZeros([i \in DOMAIN pred |-> Dot(vector_by_id(c, pred[i]), query)],
                         top_n)
        IN IF expected = <<>> \/ ~Broadcastable(predicted_sims, expected_sims)
           THEN [acc EXCEPT !.raised = TRUE]
           ELSE AccuracyLoop(predicted, queries, c, nb, top_n, expecteds, query_no + 1,
                    [acc EXCEPT !.correct = @ + Overlap(expected_ids, pred),
                                !.diffs = @ \o Differences(predicted_sims, expected_sims)])

\* the value num_best has after line 123
SetNumBest(nb, top_n) == top_n

\* get_accuracy(predicted_ids, queries, gensim_index, expecteds), lines
\* 119-131.  The result holds precision as correct / denom and the average
\* difference as Sum(diffs) / Len(diffs); raised says that an exception left
\* the function instead (a ValueError of line 125 or 130, a
\* ZeroDivisionError of line 131)
get_accuracy(predicted, queries, c, nb, top_n, expecteds) ==
    LET start == [raised |-> FALSE, correct |-> 0, denom |-> top_n * Len(queries),
                  diffs |-> <<>>, called |-> TRUE]
        out == AccuracyLoop(predicted, queries, c, SetNumBest(nb, top_n), top_n,
                            expecteds, 1, start)
    IN IF ~out.raised /\ (out.denom = 0 \/ out.diffs = <<>>)
       THEN [out EXCEPT !.raised = TRUE]
       ELSE out

NotCalled == [raised |-> FALSE, correct |-> 0, denom |-> 0, diffs |-> <<>>, called |-> FALSE]

\* one call of get_accuracy as log_precision makes it (line 136)
GetAccuracy ==
    /\ ~accuracy.called
    /\ corpus /= <<>>
    /\ accuracy' = get_accuracy(predicted_ids, QueriesOf(corpus), corpus, num_best,
                                TOP_N, NoExpecteds)
    /\ num_best' = SetNumBest(num_best, TOP_N)
    /\ UNCHANGED <<corpus, predicted_ids>>

\* everything of the script's own state but TOP_N, as before the first run
MainIdle ==
    /\ in_program = [b \in Backends |-> FALSE]
    /\ ACC = "high"
    /\ pc = [at |-> "start", phase |-> "argv"]
    /\ disk = [n \in ArtifactNames |-> NoFile]
    /\ clipped_saved = FALSE
    /\ index = [b \in Backends |-> NoIndex]
    /\ steps = [b \in Backends |-> <<>>]
    /\ ground_truths = 0
    /\ asked_k = {}
    /\ failed = "none"

AccIdle ==
    /\ corpus = <<>>
    /\ predicted_ids = <<>>
    /\ num_best = 0
    /\ accuracy = NotCalled

\* no query function has been profiled
NotReported == [num |-> 0, den |-> 1, done |-> FALSE, raised |-> FALSE]

ProfIdle ==
    /\ num_docs = 0
    /\ times = <<>>
    /\ reported = NotReported

AccuracyInit ==
    /\ MainIdle
    /\ TOP_N \in 1..MaxK
    /\ corpus \in Corpora
    /\ num_best \in {1, MaxK}
    /\ predicted_ids \in [1..Len(QueriesOf(corpus)) -> IdLists(Len(corpus), TOP_N)]
    /\ accuracy = NotCalled
    /\ ProfIdle

(***************************************************************************)
(* The profile decorator (lines 41-54) around one query function.          *)
(***************************************************************************)
\* min(times)
MinOf(s) == CHOOSE x \in Range(s) : \A y \in Range(s) : x <= y

\* the divisor of line 50
ReportDivisor == NUM_QUERIES

\* lines 47-49: one pass over all queries takes d time units
Pass(d) ==
    /\ ~reported.done /\ ~reported.raised
    /\ num_docs > 0
    /\ Len(times) < REPEATS
    /\ times' = Append(times, d)
    /\ UNCHANGED <<num_docs, reported>>

\* line 48: the query function raises, and with_profiling with it
PassRaises ==
    /\ ~reported.done /\ ~reported.raised
    /\ num_docs > 0
    /\ Len(times) < REPEATS
    /\ reported' = [reported EXCEPT !.raised = TRUE]
    /\ UNCHANGED <<num_docs, times>>

\* line 50: after the loop, log 1000.0 * min(times) / NUM_QUERIES
Report ==
    /\ ~reported.done /\ ~reported.raised
    /\ Len(times) = REPEATS
    /\ reported' = [num |-> 1000 * MinOf(times), den |-> ReportDivisor,
                    done |-> TRUE, raised |-> FALSE]
    /\ UNCHANGED <<num_docs, times>>

\* line 166: num_docs = min(mm.num_docs, MAX_DOCS)
ProfileInit ==
    /\ MainIdle
    /\ TOP_N = 1
    /\ AccIdle
    /\ num_docs \in {Min(n, MAX_DOCS) : n \in 1..MaxNumDocs}
    /\ times = <<>>
    /\ reported = NotReported

MainInit == MainIdle /\ TOP_N = 1

Init == MainInit /\ AccIdle /\ ProfIdle

Next ==
    \/ \E path \in ProgramPaths, top_n \in TopNs, acc \in Accs :
          StartRun(path, top_n, acc) /\ UNCHANGED <<accVars, profVars>>
    \/ \E b \in Backends : BuildOrLoad(b) /\ UNCHANGED <<accVars, profVars>>
    \/ \E b \in Backends : LogPrecision(b) /\ UNCHANGED <<accVars, profVars>>
    \/ \E b \in Backends : Profile(b) /\ UNCHANGED <<accVars, profVars>>
    \/ \E b \in Backends : Raise(b) /\ UNCHANGED <<accVars, profVars>>
    \/ Exit /\ UNCHANGED <<accVars, profVars>>

Spec == Init /\ [][Next]_vars

AccuracyNext == GetAccuracy /\ UNCHANGED <<mainVars, profVars>>

SpecAccuracy == AccuracyInit /\ [][AccuracyNext]_vars

ProfileNext ==
    \/ \E d \in 1..MaxDuration : Pass(d) /\ UNCHANGED <<mainVars, accVars>>
    \/ PassRaises /\ UNCHANGED <<mainVars, accVars>>
    \/ Report /\ UNCHANGED <<mainVars, accVars>>

SpecProfile == ProfileInit /\ [][ProfileNext]_vars

(***************************************************************************)
(* Properties of Spec.                                                     *)
(***************************************************************************)
StepKind(s) ==
    CASE s \in {"build", "load"} -> "index"
      [] s = "eval" -> "eval"
      [] s \in {"1by1", "at_once"} -> "time"

Kinds(b) == {StepKind(steps[b][i]) : i \in DOMAIN steps[b]}

\* everything the script does for backend b has been done
Measured(b) == Len(steps[b]) = Len(Phases(b))

\* C1: when a step of one backend raised and two or more backends are
\* enabled, the run still reaches its end and every other enabled backend has
\* been built or loaded, evaluated and timed.
C1_FailureDoesNotBlockOthers ==
    (Ended /\ failed \in EnabledBackends /\ Cardinality(EnabledBackends) >= 2)
        => /\ pc.phase = "done"
           /\ \A b \in EnabledBackends \ {failed} : Measured(b)

\* C2: one invocation computes the ground truth at most once, however many
\* backends it evaluates.
C2_GroundTruthComputedOnce == ground_truths <= 1

\* C7: every query of an invocation, whichever index it goes to, asks for the
\* TOP_N of that invocation.
C7_EveryQueryAsksForTopN == \A k \in asked_k : k = TOP_N

\* C10: once an index is in memory, the evaluation and timing steps leave it
\* as it is, num_best of the gensim index included.
C10_IndexNeverChanges ==
    [][(pc.at \in Backends /\ pc.phase /= "index")
          => \A b \in Backends : index[b] /= NoIndex => index'[b] = index[b]]_vars

\* for every set of backends there is a program name that selects exactly it
AnySubsetSelectable ==
    \A S \in SUBSET Backends :
        \E path \in ProgramPaths : {b \in Backends : KeywordsIn(path)[b]} = S

\* C8 as claimed: a backend whose keyword is not in the program name has no
\* index built or loaded and is neither timed nor evaluated, and any subset of
\* the backends can be selected.
C8_UnselectedSkippedEntirely ==
    /\ \A b \in Backends : ~Selected(b) => steps[b] = <<>> /\ index[b] = NoIndex
    /\ AnySubsetSelectable

\* C8 as amended: that holds for flann, annoy, lsh and sklearn; an unselected
\* gensim is not timed, but its index, the ground-truth oracle, is built or
\* loaded first thing in every invocation; any subset can be selected.
C8_UnselectedSkipped ==
    /\ \A b \in Backends \ {"gensim"} :
          ~Selected(b) => steps[b] = <<>> /\ index[b] = NoIndex
    /\ ~Selected("gensim") => Kinds("gensim") \subseteq {"index"}
    /\ (pc.at \in Backends /\ pc /= [at |-> "gensim", phase |-> "index"]) \/ pc.phase = "done"
          => index["gensim"] /= NoIndex /\ Kinds("gensim") /= {}
    /\ AnySubsetSelectable

C8_Witness ==
    /\ pc.phase = "done"
    /\ EnabledBackends = {"annoy", "sklearn"}
    /\ StepKind(steps["gensim"][1]) = "index"
    /\ steps["flann"] = <<>> /\ index["flann"] = NoIndex
    /\ Measured("annoy")

\* the steps of b so far are of non-decreasing rank under the given ranking
\* of step kinds, an index step comes first and there is one index step and at
\* most one evaluation
InOrder(b, rank) ==
    /\ \A i, j \in DOMAIN steps[b] :
          i < j => rank[StepKind(steps[b][i])] <= rank[StepKind(steps[b][j])]
    /\ Cardinality({i \in DOMAIN steps[b] : StepKind(steps[b][i]) /= "time"})
          <= IF b = "gensim" THEN 1 ELSE 2
    /\ steps[b] /= <<>> => StepKind(steps[b][1]) = "index"

BuiltUnder(b, k, acc) == disk[ArtifactName(b, acc)] = NewIndex(b, k, acc)

\* C6: a build step leaves the index it built in the file a run of the same
\* configuration looks for; later steps and runs never rebuild, rewrite or
\* remove that file; and the index step of a run whose configuration's
\* artifact is there loads it, writes nothing, and has in memory the index a
\* build under this configuration makes.
C6_BuildOrLoadIdempotent ==
    [][/\ \A b \in Backends :
             steps'[b] = Append(steps[b], "build")
                => BuiltUnder(b, TOP_N, ACC)' /\ index'[b] = NewIndex(b, TOP_N, ACC)
       /\ \A b \in Backends, k \in TopNs, acc \in Accs :
             BuiltUnder(b, k, acc) => BuiltUnder(b, k, acc)'
       /\ \A b \in Backends :
             (pc = [at |-> b, phase |-> "index"] /\ steps'[b] /= steps[b]
                  /\ BuiltUnder(b, TOP_N, ACC))
                => /\ steps'[b] = <<"load">>
                   /\ disk' = disk
                   /\ index'[b] = NewIndex(b, TOP_N, ACC)]_vars

C6_Witness ==
    /\ pc.phase = "done"
    /\ EnabledBackends = Backends
    /\ \A b \in Backends : steps[b][1] = "load" /\ index[b] = NewIndex(b, TOP_N, ACC)
    /\ asked_k = {TOP_N}

(***************************************************************************)
(* Properties of SpecAccuracy.                                             *)
(***************************************************************************)
Returned == accuracy.called /\ ~accuracy.raised

QueryNos == 1..Len(QueriesOf(corpus))

\* the ground truth of query q: the TOP_N most similar documents
Truth(q) == gensim_query(corpus, QueriesOf(corpus)[q], TOP_N)
TruthIds(q) == [i \in DOMAIN Truth(q) |-> Truth(q)[i][1]]
TruthSims(q) == [i \in DOMAIN Truth(q) |-> Truth(q)[i][2]]

\* the true similarity of the document predicted for slot i of query q, 0
\* for a slot the backend left empty
SlotSim(q, i) ==
    IF i <= Len(predicted_ids[q])
    THEN Dot(vector_by_id(corpus, predicted_ids[q][i]), QueriesOf(corpus)[q])
    ELSE 0

\* sum over the queries 1..q of |predicted_ids /\ expected_ids|
RECURSIVE Hits(_)
Hits(q) ==
    IF q = 0 THEN 0
    ELSE Hits(q - 1) + Cardinality(Range(TruthIds(q)) \cap Range(predicted_ids[q]))

RECURSIVE TruthSimsUpTo(_)
TruthSimsUpTo(q) == IF q = 0 THEN <<>> ELSE TruthSimsUpTo(q - 1) \o TruthSims(q)

PrecisionFormula ==
    /\ accuracy.correct = Hits(Len(QueriesOf(corpus)))
    /\ accuracy.denom = TOP_N * Len(QueriesOf(corpus))
    /\ 0 <= accuracy.correct /\ accuracy.correct <= accuracy.denom

AllPredictedAsExpected == \A q \in QueryNos : predicted_ids[q] = TruthIds(q)

\* C3 as claimed: the precision get_accuracy returns is the number of
\* predicted ids that are among the expected ones, summed over the queries,
\* over TOP_N * query count; it lies in [0, 1]; it is 1 when every query is
\* answered with exactly its expected ids.
C3_PrecisionIsOneOnExactAnswers ==
    Returned => /\ PrecisionFormula
                /\ AllPredictedAsExpected => accuracy.correct = accuracy.denom

\* C3 as amended: the same, with precision 1 for exact answers when the
\* ground truth holds TOP_N ids for every query, that is, when the corpus has
\* at least TOP_N documents.
C3_Precision ==
    Returned => /\ PrecisionFormula
                /\ (AllPredictedAsExpected /\ \A q \in QueryNos : Len(TruthIds(q)) = TOP_N)
                      => accuracy.correct = accuracy.denom

C3_Witness ==
    /\ Returned
    /\ Len(corpus) = 2 /\ TOP_N = 2
    /\ AllPredictedAsExpected
    /\ accuracy.correct = 4 /\ accuracy.denom = 4

AllPredictedEmpty == \A q \in QueryNos : predicted_ids[q] = <<>>

\* the difference get_accuracy holds for slot i of query q
DiffAt(q, i) == accuracy.diffs[(q - 1) * TOP_N + i]

\* C4: get_accuracy contributes TOP_N differences for every query, the
\* expected similarity of slot i minus the true similarity of the document
\* predicted for it, or minus 0 for a slot the backend left empty (checked
\* for the slots the ground truth fills), and averages over TOP_N * query
\* count differences; empty answers to every query give precision 0 and an
\* average difference equal to the average of the expected similarities
\* (fractions compared by cross-multiplication).
C4_PaddedDifferences ==
    accuracy.called
        => /\ ~accuracy.raised
           /\ Len(accuracy.diffs) = TOP_N * Len(QueriesOf(corpus))
           /\ \A q \in QueryNos : \A i \in 1..Len(TruthSims(q)) :
                 DiffAt(q, i) = TruthSims(q)[i] - SlotSim(q, i)
           /\ AllPredictedEmpty
                 => /\ accuracy.correct = 0
                    /\ Sum(accuracy.diffs) * Len(TruthSimsUpTo(Len(QueriesOf(corpus))))
                          = Sum(TruthSimsUpTo(Len(QueriesOf(corpus)))) * Len(accuracy.diffs)

(***************************************************************************)
(* Properties of SpecProfile.                                              *)
(***************************************************************************)
\* C5: the report is made after exactly REPEATS passes, and the reported
\* ms/query is 1000 * min(times) over the number of queries in the workload
\* (fractions compared by cross-multiplication).
C5_LatencyPerQueryOfWorkload ==
    reported.done
        => /\ Len(times) = REPEATS
           /\ reported.num * Min(NUM_QUERIES, num_docs)
                 = 1000 * MinOf(times) * reported.den

====
